---- MODULE Spec2Model ----
(***************************************************************************)
(* Model of the /generate-deformations handler of descriptive-rigidity.    *)
(* src/main.go holds three variants of the handler:                        *)
(*   "single"   (lines   1-186)  one flat frame of deltas                   *)
(*   "absolute" (lines 188-445)  frames of absolute positions -> deltas     *)
(*   "delta"    (lines 447-680)  frames of deltas                           *)
(* A server runs one variant.  Numbers with a fraction (positions, deltas) *)
(* are held in fixed point, as integers counting thousandths.              *)
(***************************************************************************)
EXTENDS Integers, Sequences, FiniteSets, TLC

\* ------------------------------------------------------------------ bounds
\* Longest control_points list of a request.
MaxPoints == 2
\* Most frames in a reply of the completion service.
MaxFrames == 2
MaxRequests == 2

\* --------------------------------------------------------------- constants
StatusOK == 200
StatusBadRequest == 400
StatusMethodNotAllowed == 405
StatusInternalServerError == 500

Variants == {"single", "absolute", "delta"}
MultiFrame == {"absolute", "delta"}

VARIABLES
    variant,        \* which handler the server runs
    apiKey,         \* os.Getenv("OPENAI_API_KEY")
    pc,             \* position of the handler
    method,         \* r.Method
    body,           \* r.Body, as sent
    payload,        \* var payload RequestPayload (ids rewritten in place)
    idMap,          \* idMap: original id -> assigned id
    keyRead,        \* the handler has read OPENAI_API_KEY
    calls,          \* number of CreateChatCompletion calls made
    resp,           \* resp, err of CreateChatCompletion
    deformations,   \* deformations: frames keyed by assigned id
    adjusted,       \* adjustedDeformations: frames keyed by original id
    status,         \* HTTP status written (0: none yet)
    written,        \* number of responses written
    trace           \* positions the handler has passed

vars == <<variant, apiKey, pc, method, body, payload, idMap, keyRead, calls,
          resp, deformations, adjusted, status, written, trace>>

\* ------------------------------------------------------------ request data
\* type ControlPoint struct {ID, Role, Position}
Points ==
    { [ID |-> 5, Role |-> "head",      Position |-> <<0, 7000, 0>>],
      [ID |-> 5, Role |-> "right arm", Position |-> <<-1000, 2000, 0>>],
      [ID |-> 0, Role |-> "left leg",  Position |-> <<1000, 2000, 0, 9000>>],
      [ID |-> 1, Role |-> "left arm",  Position |-> <<1000, 2000>>] }

RECURSIVE SeqsUpTo(_, _)
SeqsUpTo(S, n) ==
    IF n = 0 THEN {<<>>}
    ELSE LET shorter == SeqsUpTo(S, n - 1)
         IN  shorter \cup {Append(s, x) : s \in {t \in shorter : Len(t) = n - 1}, x \in S}

PointLists == SeqsUpTo(Points, MaxPoints)
Prompts == {"", "make the character wave"}
Lengths == {-1, 0, 1, 2}
FieldNames == {"control_points", "prompt", "length"}

\* A request body: well-formed JSON or not, and the members it carries.  A
\* member the body does not carry holds the zero value here.
Bodies ==
    { [wellFormed |-> FALSE, present |-> {}, control_points |-> <<>>,
       prompt |-> "", length |-> 0] }
    \cup
    { [wellFormed |-> TRUE, present |-> FieldNames \ absent,
       control_points |-> cps, prompt |-> p, length |-> n] :
         absent \in {{}}, cps \in PointLists, p \in Prompts, n \in Lengths }
    \cup
    { [wellFormed |-> TRUE, present |-> FieldNames \ absent,
       control_points |-> IF "control_points" \in absent THEN <<>> ELSE cps,
       prompt |-> IF "prompt" \in absent THEN "" ELSE "make the character wave",
       length |-> IF "length" \in absent THEN 0 ELSE 2] :
         absent \in (SUBSET FieldNames) \ {{}},
         cps \in {s \in PointLists : Len(s) = 1} }

Methods == {"POST", "GET"}

\* var payload RequestPayload before decoding
ZeroPayload == [ControlPoints |-> <<>>, Prompt |-> "", Length |-> 0]

\* decoder.Decode(&payload): members present are stored, the others keep the
\* zero value; the single-frame RequestPayload has no Length member.
DecodePayload(v, b) ==
    [ControlPoints |-> IF "control_points" \in b.present THEN b.control_points ELSE <<>>,
     Prompt        |-> IF "prompt" \in b.present THEN b.prompt ELSE "",
     Length        |-> IF "length" \in b.present /\ v \in MultiFrame THEN b.length ELSE 0]

\* r.Method != http.MethodPost is the only method test
MethodAllowed_AnyMethod(m) == m \in {"POST", "GET"}
MethodAllowed(m) == m = "POST"

\* apiKey == ""
CredentialMissing_NeverChecked(k) == FALSE
CredentialMissing(k) == k = ""

\* the validation condition without the length test
InvalidInput_NoLength(v, p) ==
    \/ Len(p.ControlPoints) = 0
    \/ p.Prompt = ""

\* the validation condition of each variant
InvalidInput(v, p) ==
    \/ Len(p.ControlPoints) = 0
    \/ p.Prompt = ""
    \/ (v \in MultiFrame /\ p.Length <= 0)

\* ------------------------------------------------------ identifier normalizer
EmptyMap == [x \in {} |-> 0]

\* the loop with every point given a fresh id, repeated or not
RECURSIVE NormalizeFrom_FreshPerPoint(_, _, _, _)
NormalizeFrom_FreshPerPoint(cps, i, m, uniqueID) ==
    IF i > Len(cps) THEN [idMap |-> m, ControlPoints |-> cps]
    ELSE NormalizeFrom_FreshPerPoint(
             [cps EXCEPT ![i].ID = uniqueID], i + 1,
             [o \in DOMAIN m \cup {cps[i].ID} |->
                 IF o = cps[i].ID THEN uniqueID ELSE m[o]],
             uniqueID + 1)

\* the loop with a point of a repeated id removed from the sequence
RECURSIVE NormalizeFrom_DropRepeated(_, _, _, _)
NormalizeFrom_DropRepeated(cps, i, m, uniqueID) ==
    IF i > Len(cps) THEN [idMap |-> m, ControlPoints |-> cps]
    ELSE IF cps[i].ID \notin DOMAIN m
         THEN NormalizeFrom_DropRepeated([cps EXCEPT ![i].ID = uniqueID], i + 1,
                                         m @@ (cps[i].ID :> uniqueID), uniqueID + 1)
         ELSE NormalizeFrom_DropRepeated(
                  SubSeq(cps, 1, i - 1) \o SubSeq(cps, i + 1, Len(cps)), i, m, uniqueID)

\* the loop over payload.ControlPoints: state after points i..Len(cps)
RECURSIVE NormalizeFrom(_, _, _, _)
NormalizeFrom(cps, i, m, uniqueID) ==
    IF i > Len(cps) THEN [idMap |-> m, ControlPoints |-> cps]
    ELSE IF cps[i].ID \notin DOMAIN m
         THEN NormalizeFrom([cps EXCEPT ![i].ID = uniqueID], i + 1,
                            m @@ (cps[i].ID :> uniqueID), uniqueID + 1)
         ELSE NormalizeFrom([cps EXCEPT ![i].ID = m[cps[i].ID]], i + 1, m, uniqueID)

NormalizeIds(cps) == NormalizeFrom(cps, 1, EmptyMap, 0)

\* ------------------------------------------------------------- completion
\* A JSON object key is a sequence of characters.
Digits == {"0", "1", "2", "3", "4", "5", "6", "7", "8", "9"}
DigitVal(c) ==
    CASE c = "0" -> 0 [] c = "1" -> 1 [] c = "2" -> 2 [] c = "3" -> 3 [] c = "4" -> 4
      [] c = "5" -> 5 [] c = "6" -> 6 [] c = "7" -> 7 [] c = "8" -> 8 [] c = "9" -> 9

\* number of leading spaces of s
RECURSIVE SpaceRun(_, _)
SpaceRun(s, i) ==
    IF i <= Len(s) /\ s[i] = " " THEN 1 + SpaceRun(s, i + 1) ELSE 0

\* number of digits of s from position i on
RECURSIVE DigitRun(_, _)
DigitRun(s, i) ==
    IF i <= Len(s) /\ s[i] \in Digits THEN 1 + DigitRun(s, i + 1) ELSE 0

\* value of the n digits of s from position i on
RECURSIVE DigitsValue(_, _, _)
DigitsValue(s, i, n) ==
    IF n = 0 THEN 0
    ELSE 10 * DigitsValue(s, i, n - 1) + DigitVal(s[i + n - 1])

\* fmt.Sscanf(idStr, "%d", &id): leading spaces are skipped, a sign is
\* accepted, the longest run of digits is converted and the rest of the
\* string is left unread; no digit at all is an error.
ScanInt(s) ==
    LET start  == 1 + SpaceRun(s, 1)
        signed == start <= Len(s) /\ s[start] \in {"+", "-"}
        first  == IF signed THEN start + 1 ELSE start
        n      == DigitRun(s, first)
        v      == DigitsValue(s, first, n)
    IN  IF n = 0 THEN [ok |-> FALSE, id |-> 0]
        ELSE [ok |-> TRUE, id |-> IF signed /\ s[start] = "-" THEN 0 - v ELSE v]

\* strconv.ParseInt(key, 10, 64), which encoding/json applies to the keys of a
\* map[int]T: a sign and digits up to the end of the string, nothing else.
ParseIntKey(s) ==
    LET signed == Len(s) >= 1 /\ s[1] \in {"+", "-"}
        first  == IF signed THEN 2 ELSE 1
        n      == DigitRun(s, first)
        v      == DigitsValue(s, first, n)
    IN  IF n = 0 \/ first + n - 1 # Len(s) THEN [ok |-> FALSE, id |-> 0]
        ELSE [ok |-> TRUE, id |-> IF signed /\ s[1] = "-" THEN 0 - v ELSE v]

\* A value of a reply frame: an object with members delta_x, delta_y, delta_z
\* ("delta"), one with members x, y, z ("position"), or a JSON string.
Val(kind, a, b, c) == [kind |-> kind, a |-> a, b |-> b, c |-> c]
NativeKind(v) == IF v = "absolute" THEN "position" ELSE "delta"
ForeignKind(v) == IF v = "absolute" THEN "delta" ELSE "position"
First(v) == IF v = "absolute" THEN Val("position", 1200, 2500, 100)
                              ELSE Val("delta", 200, 500, 100)
Second(v) == IF v = "absolute" THEN Val("position", 1005, 1994, -15)
                               ELSE Val("delta", 0, -100, 0)
Foreign(v) == Val(ForeignKind(v), 300, 300, 300)
StringVal == Val("string", 0, 0, 0)

Pair(k, x) == [key |-> k, val |-> x]

\* Frames a reply is built from, each the members of one JSON object in the
\* order of the text.
ReplyFrames(v) ==
    { << Pair(<<"0">>, First(v)) >>,
      << Pair(<<"0">>, First(v)), Pair(<<"1">>, Second(v)) >>,
      << Pair(<<"1">>, First(v)), Pair(<<"0", "1">>, Second(v)) >>,
      << Pair(<<"a", "b", "c">>, First(v)), Pair(<<"1">>, Second(v)) >>,
      << Pair(<<"1", "a">>, First(v)), Pair(<<"7">>, Second(v)) >>,
      << Pair(<<"0">>, StringVal) >>,
      << Pair(<<"0">>, Foreign(v)) >> }

NoContent == [shape |-> "none", frames |-> <<>>]
NoResp == [err |-> FALSE, choices |-> 0, content |-> NoContent]

\* resp.Choices[0].Message.Content, by the shape of the text:
\*   malformed      not JSON
\*   array          a JSON array of frames (what the multi-frame prompts ask for)
\*   framesNotList  {"frames": "..."}
\*   flat           one frame as the top-level object
\*   frames         {"frames": [frame, ...]}
Contents(v) ==
    { [shape |-> "malformed", frames |-> <<>>],
      [shape |-> "array", frames |-> <<>>],
      [shape |-> "framesNotList", frames |-> <<>>] }
    \cup { [shape |-> "flat", frames |-> <<f>>] : f \in ReplyFrames(v) }
    \cup { [shape |-> "frames", frames |-> fs] :
             fs \in SeqsUpTo(ReplyFrames(v), IF v \in MultiFrame THEN MaxFrames ELSE 1) }

\* what CreateChatCompletion can return
Responses(v) ==
    { [err |-> TRUE, choices |-> 0, content |-> NoContent],
      [err |-> FALSE, choices |-> 0, content |-> NoContent] }
    \cup { [err |-> FALSE, choices |-> 1, content |-> c] : c \in Contents(v) }

\* ---------------------------------------------------------- response decoder
Deformation(x, y, z) == [DeltaX |-> x, DeltaY |-> y, DeltaZ |-> z]
Position(x, y, z) == [X |-> x, Y |-> y, Z |-> z]

\* json into a Deformation with delta_x and delta_y stored in each other's place
AsDeformation_Swapped(x) ==
    IF x.kind = "delta" THEN Deformation(x.b, x.a, x.c) ELSE Deformation(0, 0, 0)

\* json into a Deformation: members of other names are ignored and the
\* members not given stay 0
AsDeformation(x) ==
    IF x.kind = "delta" THEN Deformation(x.a, x.b, x.c) ELSE Deformation(0, 0, 0)

\* json into a Position
AsPosition(x) ==
    IF x.kind = "position" THEN Position(x.a, x.b, x.c) ELSE Position(0, 0, 0)

Keys(frame) == {frame[i].key : i \in DOMAIN frame}
HasString(frame) == \E i \in DOMAIN frame : frame[i].val.kind = "string"

\* the member of a JSON object under key k: the last one in the text
Member(frame, k) ==
    LET last == CHOOSE i \in DOMAIN frame :
                    /\ frame[i].key = k
                    /\ \A j \in DOMAIN frame : frame[j].key = k => j <= i
    IN  frame[last].val

\* json.Unmarshal into ResponsePayload map[int]Deformation (single-frame)
UnmarshalSingle(c) ==
    IF c.shape # "flat" THEN [err |-> TRUE, frame |-> EmptyMap]
    ELSE LET f == c.frames[1]
         IN  IF HasString(f) \/ \E k \in Keys(f) : ~ParseIntKey(k).ok
             THEN [err |-> TRUE, frame |-> EmptyMap]
             ELSE [err |-> FALSE,
                   frame |-> [id \in {ParseIntKey(k).id : k \in Keys(f)} |->
                                LET last == CHOOSE i \in DOMAIN f :
                                        /\ ParseIntKey(f[i].key).id = id
                                        /\ \A j \in DOMAIN f :
                                             ParseIntKey(f[j].key).id = id => j <= i
                                IN  AsDeformation(f[last].val)]]

\* json.Unmarshal into OpenAIResponse{Frames []map[string]T}: Frames as a
\* sequence of maps from key to the reply value
UnmarshalFrames(c) ==
    CASE c.shape \in {"malformed", "array", "framesNotList"} ->
            [err |-> TRUE, Frames |-> <<>>]
      [] c.shape = "flat" ->
            [err |-> FALSE, Frames |-> <<>>]
      [] c.shape = "frames" ->
            IF \E i \in DOMAIN c.frames : HasString(c.frames[i])
            THEN [err |-> TRUE, Frames |-> <<>>]
            ELSE [err |-> FALSE,
                  Frames |-> [i \in DOMAIN c.frames |->
                                [k \in Keys(c.frames[i]) |-> Member(c.frames[i], k)]]]

\* the table with the first point of each id kept
OriginalPositions_FirstWins(cps) ==
    [id \in {cps[i].ID : i \in DOMAIN cps} |->
        LET first == CHOOSE i \in DOMAIN cps :
                         /\ cps[i].ID = id
                         /\ \A j \in DOMAIN cps : cps[j].ID = id => j >= i
        IN  cps[first].Position]

\* originalPositions, built from the control points as normalized
OriginalPositions(cps) ==
    [id \in {cps[i].ID : i \in DOMAIN cps} |->
        LET last == CHOOSE i \in DOMAIN cps :
                        /\ cps[i].ID = id
                        /\ \A j \in DOMAIN cps : cps[j].ID = id => j <= i
        IN  cps[last].Position]

\* the hundredths of d with the rest cut off, as a conversion to int would
Round2_Truncate(d) ==
    IF d >= 0 THEN (d \div 10) * 10 ELSE 0 - ((0 - d) \div 10) * 10

\* math.Round(d*100)/100 of a number of thousandths: to the nearest hundredth,
\* halves away from zero
Round2(d) ==
    IF d >= 0 THEN ((d + 5) \div 10) * 10 ELSE 0 - (((0 - d) + 5) \div 10) * 10

\* the delta of a returned position against an original position
Delta(p, orig) ==
    Deformation(Round2(p.X - orig[1]), Round2(p.Y - orig[2]), Round2(p.Z - orig[3]))

\* the ids stored under when the length test asks for a fourth component
StoredIds_FourComponents(v, frame, op) ==
    { id \in {ScanInt(k).id : k \in {kk \in DOMAIN frame : ScanInt(kk).ok}} :
        v = "absolute" => (id \in DOMAIN op /\ Len(op[id]) >= 4) }

\* ids a frame's conversion loop stores under
StoredIds(v, frame, op) ==
    { id \in {ScanInt(k).id : k \in {kk \in DOMAIN frame : ScanInt(kk).ok}} :
        v = "absolute" => (id \in DOMAIN op /\ Len(op[id]) >= 3) }

\* values the loop can leave under id: one per key that scans to id; which one
\* stays is decided by the iteration order of the map
Candidates(v, frame, op, id) ==
    { IF v = "absolute" THEN Delta(AsPosition(frame[k]), op[id])
                        ELSE AsDeformation(frame[k]) :
        k \in {kk \in DOMAIN frame : ScanInt(kk).ok /\ ScanInt(kk).id = id} }

\* the frameMap values the conversion loop can produce for one frame
ConvertFrame(v, frame, op) ==
    LET ids == StoredIds(v, frame, op)
        all == UNION {Candidates(v, frame, op, id) : id \in ids}
    IN  { m \in [ids -> all] : \A id \in ids : m[id] \in Candidates(v, frame, op, id) }

\* the deformations values the conversion loop can produce for the first n frames
RECURSIVE ConvertUpTo(_, _, _, _)
ConvertUpTo(v, Frames, op, n) ==
    IF n = 0 THEN {<<>>}
    ELSE { Append(d, m) : d \in ConvertUpTo(v, Frames, op, n - 1),
                          m \in ConvertFrame(v, Frames[n], op) }

ConvertFrames(v, Frames, op) == ConvertUpTo(v, Frames, op, Len(Frames))

\* the loop over idMap with the frame copied under the assigned ids
AdjustFrame_DenseKeys(m, frame) ==
    [newID \in {m[o] : o \in DOMAIN m} \cap DOMAIN frame |-> frame[newID]]

\* the loop over idMap with a zero entry for every id the frame lacks
AdjustFrame_ZeroFill(m, frame) ==
    [originalID \in DOMAIN m |->
        IF m[originalID] \in DOMAIN frame THEN frame[m[originalID]]
        ELSE Deformation(0, 0, 0)]

\* the loop over idMap for one frame
AdjustFrame(m, frame) ==
    [originalID \in {o \in DOMAIN m : m[o] \in DOMAIN frame} |-> frame[m[originalID]]]

\* adjustedDeformations with the loop started one frame late
Adjust_SkipFirst(m, frames) ==
    [i \in 1..(Len(frames) - 1) |-> AdjustFrame(m, frames[i + 1])]

\* adjustedDeformations
Adjust(m, frames) == [i \in DOMAIN frames |-> AdjustFrame(m, frames[i])]

\* ------------------------------------------------------------------- Init
Init ==
    /\ variant \in Variants
    /\ apiKey \in {"", "sk-key"}
    /\ pc = "idle"
    /\ method = "POST"
    /\ body = [wellFormed |-> FALSE, present |-> {}, control_points |-> <<>>,
               prompt |-> "", length |-> 0]
    /\ payload = ZeroPayload
    /\ idMap = EmptyMap
    /\ keyRead = FALSE
    /\ calls = 0
    /\ resp = NoResp
    /\ deformations = <<>>
    /\ adjusted = <<>>
    /\ status = 0
    /\ written = 0
    /\ trace = <<>>

\* http.Error(w, msg, code); return
Fail(code) ==
    /\ status' = code
    /\ written' = written + 1
    /\ pc' = "done"

Goto(next) ==
    /\ pc' = next
    /\ UNCHANGED <<status, written>>

\* the listener hands a request to the handler
Receive ==
    /\ pc = "idle"
    /\ \E m \in Methods, b \in Bodies :
         /\ method' = m
         /\ body' = b
    /\ pc' = "method"
    /\ trace' = Append(trace, "method")
    /\ UNCHANGED <<variant, apiKey, payload, idMap, keyRead, calls, resp,
                   deformations, adjusted, status, written>>

\* if r.Method != http.MethodPost
CheckMethod ==
    /\ pc = "method"
    /\ IF ~MethodAllowed(method) THEN Fail(StatusMethodNotAllowed) ELSE Goto("parse")
    /\ trace' = Append(trace, pc')
    /\ UNCHANGED <<variant, apiKey, method, body, payload, idMap, keyRead, calls,
                   resp, deformations, adjusted>>

\* decoder.Decode(&payload), with the credential tested before it
ParseBody_CredentialFirst ==
    /\ pc = "parse"
    /\ keyRead' = TRUE
    /\ IF CredentialMissing(apiKey)
       THEN /\ Fail(StatusInternalServerError)
            /\ UNCHANGED payload
       ELSE IF ~body.wellFormed
       THEN /\ Fail(StatusBadRequest)
            /\ UNCHANGED payload
       ELSE /\ Goto("validate")
            /\ payload' = DecodePayload(variant, body)
    /\ trace' = Append(trace, pc')
    /\ UNCHANGED <<variant, apiKey, method, body, idMap, calls, resp,
                   deformations, adjusted>>

\* decoder.Decode(&payload)
ParseBody ==
    /\ pc = "parse"
    /\ IF ~body.wellFormed
       THEN /\ Fail(StatusBadRequest)
            /\ UNCHANGED payload
       ELSE /\ Goto("validate")
            /\ payload' = DecodePayload(variant, body)
    /\ trace' = Append(trace, pc')
    /\ UNCHANGED <<variant, apiKey, method, body, idMap, keyRead, calls, resp,
                   deformations, adjusted>>

\* if len(payload.ControlPoints) == 0 || payload.Prompt == "" [|| payload.Length <= 0]
Validate ==
    /\ pc = "validate"
    /\ IF InvalidInput(variant, payload) THEN Fail(StatusBadRequest) ELSE Goto("normalize")
    /\ trace' = Append(trace, pc')
    /\ UNCHANGED <<variant, apiKey, method, body, payload, idMap, keyRead, calls,
                   resp, deformations, adjusted>>

\* the duplicate-id loop
Normalize ==
    /\ pc = "normalize"
    /\ LET n == NormalizeIds(payload.ControlPoints)
       IN  /\ idMap' = n.idMap
           /\ payload' = [payload EXCEPT !.ControlPoints = n.ControlPoints]
    /\ Goto("credential")
    /\ trace' = Append(trace, pc')
    /\ UNCHANGED <<variant, apiKey, method, body, keyRead, calls, resp,
                   deformations, adjusted>>

\* apiKey := os.Getenv("OPENAI_API_KEY"); if apiKey == ""
ReadCredential ==
    /\ pc = "credential"
    /\ keyRead' = TRUE
    /\ IF CredentialMissing(apiKey) THEN Fail(StatusInternalServerError) ELSE Goto("dispatch")
    /\ trace' = Append(trace, pc')
    /\ UNCHANGED <<variant, apiKey, method, body, payload, idMap, calls, resp,
                   deformations, adjusted>>

\* json.Marshal(payload) and the start of CreateChatCompletion
Dispatch ==
    /\ pc = "dispatch"
    /\ calls' = calls + 1
    /\ Goto("waiting")
    /\ trace' = Append(trace, pc')
    /\ UNCHANGED <<variant, apiKey, method, body, payload, idMap, keyRead, resp,
                   deformations, adjusted>>

\* CreateChatCompletion returns, and an error sends the handler back to the call
ExternalReturn_Retry ==
    /\ pc = "waiting"
    /\ calls <= 2
    /\ \E r \in Responses(variant) :
         /\ resp' = r
         /\ IF r.err THEN Goto("dispatch") ELSE Goto("decode")
    /\ trace' = Append(trace, pc')
    /\ UNCHANGED <<variant, apiKey, method, body, payload, idMap, keyRead, calls,
                   deformations, adjusted>>

\* CreateChatCompletion returns; if err != nil
ExternalReturn ==
    /\ pc = "waiting"
    /\ \E r \in Responses(variant) :
         /\ resp' = r
         /\ IF r.err THEN Fail(StatusInternalServerError) ELSE Goto("decode")
    /\ trace' = Append(trace, pc')
    /\ UNCHANGED <<variant, apiKey, method, body, payload, idMap, keyRead, calls,
                   deformations, adjusted>>

\* resp.Choices[0].Message.Content, json.Unmarshal and the key conversion loop
Decode ==
    /\ pc = "decode"
    /\ IF resp.choices = 0
       THEN \* index out of range: the handler panics and writes nothing
            /\ Goto("panicked")
            /\ UNCHANGED deformations
       ELSE IF variant = "single"
       THEN LET u == UnmarshalSingle(resp.content)
            IN  IF u.err
                THEN Fail(StatusInternalServerError) /\ UNCHANGED deformations
                ELSE Goto("remap") /\ deformations' = <<u.frame>>
       ELSE LET u == UnmarshalFrames(resp.content)
            IN  IF u.err
                THEN Fail(StatusInternalServerError) /\ UNCHANGED deformations
                ELSE /\ Goto("remap")
                     /\ deformations' \in
                          ConvertFrames(variant, u.Frames,
                                        OriginalPositions(payload.ControlPoints))
    /\ trace' = Append(trace, pc')
    /\ UNCHANGED <<variant, apiKey, method, body, payload, idMap, keyRead, calls,
                   resp, adjusted>>

\* the loops that copy each frame back under the original ids
Remap ==
    /\ pc = "remap"
    /\ adjusted' = Adjust(idMap, deformations)
    /\ Goto("respond")
    /\ trace' = Append(trace, pc')
    /\ UNCHANGED <<variant, apiKey, method, body, payload, idMap, keyRead, calls,
                   resp, deformations>>

\* json.NewEncoder(w).Encode(adjustedDeformations)
Respond ==
    /\ pc = "respond"
    /\ status' = StatusOK
    /\ written' = written + 1
    /\ pc' = "done"
    /\ trace' = Append(trace, pc')
    /\ UNCHANGED <<variant, apiKey, method, body, payload, idMap, keyRead, calls,
                   resp, deformations, adjusted>>

Next ==
    \/ Receive
    \/ CheckMethod
    \/ ParseBody
    \/ Validate
    \/ Normalize
    \/ ReadCredential
    \/ Dispatch
    \/ ExternalReturn
    \/ Decode
    \/ Remap
    \/ Respond

Spec == Init /\ [][Next]_vars

\* the steps the handler's goroutine takes by itself
HandlerStep ==
    \/ CheckMethod
    \/ ParseBody
    \/ Validate
    \/ Normalize
    \/ ReadCredential
    \/ Dispatch
    \/ Decode
    \/ Remap
    \/ Respond

\* The goroutine of a request keeps running, and the completion service
\* answers every call (with a reply or an error).
FairSpec == Spec /\ WF_vars(HandlerStep) /\ WF_vars(ExternalReturn)

\* ================================================================ properties
Range(f) == {f[x] : x \in DOMAIN f}
Passed(p) == \E i \in DOMAIN trace : trace[i] = p

\* the control points as the request sent them
Orig == body.control_points
OrigIds == {Orig[i].ID : i \in DOMAIN Orig}

\* the request body lacks what the variant requires
BodyInvalid ==
    \/ "control_points" \notin body.present
    \/ Len(body.control_points) = 0
    \/ "prompt" \notin body.present
    \/ body.prompt = ""
    \/ (variant \in MultiFrame /\ ("length" \notin body.present \/ body.length <= 0))

\* adjustedDeformations holds the frames of the response
Remapped == Passed("respond")

\* C1: a request without control points, without a prompt or (multi-frame
\* variants) with length <= 0 is answered 4xx (400 once the method is POST)
\* and never gets as far as the external call.
C1_InvalidInputRejected ==
    (pc # "idle" /\ BodyInvalid) =>
        /\ calls = 0
        /\ pc \in {"method", "parse", "validate", "done"}
        /\ pc = "done" =>
             /\ status \in 400..499
             /\ method = "POST" => status = StatusBadRequest

C1_Witness ==
    /\ pc = "done"
    /\ method = "POST"
    /\ variant \in MultiFrame
    /\ body.wellFormed
    /\ Len(body.control_points) > 0
    /\ body.prompt # ""
    /\ "length" \in body.present
    /\ body.length <= 0
    /\ status = StatusBadRequest
    /\ calls = 0

\* C2: a request whose method is not POST is answered 405 whatever its body,
\* before the body is parsed, ids are normalized, the credential is read or
\* the external service is called.
C2_MethodNotAllowed ==
    (pc # "idle" /\ method # "POST") =>
        /\ payload = ZeroPayload
        /\ idMap = EmptyMap
        /\ ~keyRead
        /\ calls = 0
        /\ pc \in {"method", "done"}
        /\ pc = "done" => (status = StatusMethodNotAllowed /\ trace = <<"method", "done">>)

C2_Witness ==
    /\ pc = "done"
    /\ method = "GET"
    /\ body.wellFormed
    /\ ~BodyInvalid
    /\ apiKey = ""
    /\ status = StatusMethodNotAllowed

\* position of the first point of cps that carries id
FirstIndex(cps, id) ==
    CHOOSE j \in DOMAIN cps :
        /\ cps[j].ID = id
        /\ \A l \in 1..(j - 1) : cps[l].ID # id

\* number of distinct ids seen before the first point that carries id
Rank(cps, id) == Cardinality({cps[l].ID : l \in 1..(FirstIndex(cps, id) - 1)})

C4_RemapByOriginalId ==
    Remapped =>
        /\ Len(adjusted) = Len(deformations)
        /\ \A i \in DOMAIN adjusted :
             /\ DOMAIN adjusted[i] \subseteq OrigIds
             /\ \A o \in OrigIds :
                  idMap[o] \in DOMAIN deformations[i] =>
                      /\ o \in DOMAIN adjusted[i]
                      /\ adjusted[i][o] = deformations[i][idMap[o]]

C4_Witness ==
    /\ pc = "done"
    /\ status = StatusOK
    /\ Len(Orig) = 2
    /\ Orig[1].ID = 1
    /\ Orig[2].ID = 0
    /\ Len(adjusted) >= 1
    /\ DOMAIN adjusted[1] = {0, 1}
    /\ adjusted[1][1] # adjusted[1][0]
    /\ adjusted[1][1] = deformations[1][0]

\* C5: the keys of a response frame are exactly the original ids whose
\* assigned id is a key of the decoded frame: ids the reply omits are dropped
\* and the request still answers 200, keys the reply invents never appear.
C5_RoundTripKeys ==
    Remapped =>
        /\ Len(adjusted) = Len(deformations)
        /\ \A i \in DOMAIN adjusted :
             DOMAIN adjusted[i] = {o \in OrigIds : idMap[o] \in DOMAIN deformations[i]}
        /\ pc \in {"respond", "done"}
        /\ pc = "done" => (status = StatusOK /\ written = 1)

C5_Witness ==
    /\ pc = "done"
    /\ status = StatusOK
    /\ \E i \in DOMAIN adjusted :
         /\ \E o \in OrigIds : idMap[o] \notin DOMAIN deformations[i]
         /\ \E d \in DOMAIN deformations[i] : d \notin Range(idMap)
         /\ DOMAIN adjusted[i] # {}

\* C6: the ids of the control points sent to the completion service are
\* pairwise distinct and are exactly 0..n-1.
C6_OutboundIdsUnique ==
    calls >= 1 =>
        LET cps == payload.ControlPoints
        IN  /\ \A i, j \in DOMAIN cps : i # j => cps[i].ID # cps[j].ID
            /\ {cps[i].ID : i \in DOMAIN cps} = 0..(Len(cps) - 1)

\* C7: a request that passed validation while OPENAI_API_KEY is empty is
\* answered 500 and the external service is never called for it.
C7_MissingCredential ==
    (apiKey = "" /\ Passed("normalize")) =>
        /\ calls = 0
        /\ resp = NoResp
        /\ pc \in {"normalize", "credential", "done"}
        /\ pc = "done" => (status = StatusInternalServerError /\ written = 1)

C7_Witness ==
    /\ pc = "done"
    /\ apiKey = ""
    /\ Passed("credential")
    /\ keyRead
    /\ status = StatusInternalServerError

\* C8: a request makes at most one external call; when the call returns an
\* error the handler answers 500 at once and makes no second call.
C8_SingleCallNoRetry ==
    /\ calls <= 1
    /\ pc \in {"waiting", "decode", "remap", "respond", "panicked"} => calls = 1
    /\ resp.err => (pc = "done" /\ status = StatusInternalServerError /\ calls = 1)

C8_Witness ==
    /\ pc = "done"
    /\ resp.err
    /\ calls = 1
    /\ status = StatusInternalServerError

\* the reply text has the shape the variant's decoder is written for: a flat
\* id-keyed object (single-frame), an object with a list under "frames"
\* (multi-frame)
MatchesSchema(v, c) == c.shape = (IF v = "single" THEN "flat" ELSE "frames")

\* C9: a reply that is malformed JSON or does not match the variant's schema
\* fails the whole request with 500; no success body is returned for it.
C9_SchemaMismatchFails ==
    (pc = "done" /\ ~resp.err /\ resp.choices = 1
        /\ ~MatchesSchema(variant, resp.content)) =>
            status = StatusInternalServerError

\* the key is the decimal text of an integer
IsNumber(k) ==
    LET digits == IF Len(k) >= 1 /\ k[1] \in {"+", "-"} THEN SubSeq(k, 2, Len(k)) ELSE k
    IN  /\ Len(digits) >= 1
        /\ \A i \in DOMAIN digits : digits[i] \in Digits

\* C10: in the multi-frame variants a key that is not a number is skipped,
\* alone: the request answers 200 and each decoded frame holds entries only
\* for the keys that are numbers.
C10_NonNumericKeySkipped ==
    (variant \in MultiFrame /\ Passed("remap") /\ resp.content.shape = "frames") =>
        /\ pc = "done" => status = StatusOK
        /\ Len(deformations) = Len(resp.content.frames)
        /\ \A i \in DOMAIN deformations :
             DOMAIN deformations[i] \subseteq
                 {ScanInt(k).id : k \in {kk \in Keys(resp.content.frames[i]) : IsNumber(kk)}}

\* C11: in the single-frame variant a reply with a key that is not a number
\* does not fail the request: the key is skipped and the request answers 200.
C11_SingleNonNumericKeySkipped ==
    (variant = "single" /\ pc = "done" /\ ~resp.err /\ resp.choices = 1
        /\ resp.content.shape = "flat"
        /\ ~HasString(resp.content.frames[1])
        /\ \E k \in Keys(resp.content.frames[1]) : ~IsNumber(k)) =>
            status = StatusOK

\* the Deformation a reply value stands for in the delta variants
Plain(x) ==
    IF x.kind = "delta" THEN [DeltaX |-> x.a, DeltaY |-> x.b, DeltaZ |-> x.c]
    ELSE [DeltaX |-> 0, DeltaY |-> 0, DeltaZ |-> 0]

\* the frames of a reply of shape "frames"
SentFrames == resp.content.frames

\* C12: in the delta variant a request with the one control point of id 5 and
\* length 1, answered {"frames":[{"0":D}]}, gets the response [{"5":D}]; and
\* every value of a response is a delta of the reply, unchanged, found in the
\* same frame under a key that reads as the id assigned to it.
C12_DeltaEndToEnd ==
    (variant = "delta" /\ Passed("respond") /\ resp.content.shape = "frames") =>
        /\ Len(adjusted) = Len(SentFrames)
        /\ \A i \in DOMAIN adjusted : \A o \in DOMAIN adjusted[i] :
             \E j \in DOMAIN SentFrames[i] :
                 /\ ScanInt(SentFrames[i][j].key).ok
                 /\ ScanInt(SentFrames[i][j].key).id = idMap[o]
                 /\ adjusted[i][o] = Plain(SentFrames[i][j].val)
        /\ ( /\ Len(Orig) = 1
             /\ Orig[1].ID = 5
             /\ body.length = 1
             /\ SentFrames = << << Pair(<<"0">>, Val("delta", 200, 500, 100)) >> >> )
           => /\ adjusted = << (5 :> [DeltaX |-> 200, DeltaY |-> 500, DeltaZ |-> 100]) >>
              /\ pc = "done" => status = StatusOK

C12_Witness ==
    /\ variant = "delta"
    /\ pc = "done"
    /\ status = StatusOK
    /\ Len(Orig) = 1
    /\ Orig[1] = [ID |-> 5, Role |-> "head", Position |-> <<0, 7000, 0>>]
    /\ body.length = 1
    /\ SentFrames = << << Pair(<<"0">>, Val("delta", 200, 500, 100)) >> >>
    /\ adjusted = << (5 :> [DeltaX |-> 200, DeltaY |-> 500, DeltaZ |-> 100]) >>

Abs(n) == IF n >= 0 THEN n ELSE 0 - n

\* r is d (thousandths) at the nearest hundredth, a half going away from zero
NearestHundredth(d, r) ==
    /\ r % 10 = 0
    /\ Abs(r - d) <= 5
    /\ Abs(r - d) = 5 => Abs(r) > Abs(d)

\* the x, y, z a reply value gives the absolute variant
Returned(x) == IF x.kind = "position" THEN <<x.a, x.b, x.c>> ELSE <<0, 0, 0>>

\* positions of the request's points that carry original id o
Occurrences(o) == {j \in DOMAIN Orig : Orig[j].ID = o}

\* C13: in the absolute variant every delta of a response is, component by
\* component, the returned position minus the original position of that id,
\* at the nearest hundredth with halves away from zero (fixed point); a
\* difference already on the hundredths grid is returned as it is.
C13_DeltaRounded ==
    (variant = "absolute" /\ Passed("respond") /\ resp.content.shape = "frames") =>
        \A i \in DOMAIN adjusted : \A o \in DOMAIN adjusted[i] :
            Cardinality(Occurrences(o)) = 1 =>
                LET orig == Orig[CHOOSE j \in Occurrences(o) : TRUE].Position
                IN  /\ Len(orig) >= 3
                    /\ \E j \in DOMAIN SentFrames[i] :
                         LET p == Returned(SentFrames[i][j].val)
                             d == adjusted[i][o]
                         IN  /\ ScanInt(SentFrames[i][j].key).ok
                             /\ ScanInt(SentFrames[i][j].key).id = idMap[o]
                             /\ NearestHundredth(p[1] - orig[1], d.DeltaX)
                             /\ NearestHundredth(p[2] - orig[2], d.DeltaY)
                             /\ NearestHundredth(p[3] - orig[3], d.DeltaZ)
                             /\ (p[1] - orig[1]) % 10 = 0 => d.DeltaX = p[1] - orig[1]
                             /\ (p[2] - orig[2]) % 10 = 0 => d.DeltaY = p[2] - orig[2]
                             /\ (p[3] - orig[3]) % 10 = 0 => d.DeltaZ = p[3] - orig[3]

C13_Witness ==
    /\ variant = "absolute"
    /\ pc = "done"
    /\ status = StatusOK
    /\ \E o \in OrigIds :
         /\ Cardinality(Occurrences(o)) = 1
         /\ Len(Orig[CHOOSE j \in Occurrences(o) : TRUE].Position) >= 3
         /\ SubSeq(Orig[CHOOSE j \in Occurrences(o) : TRUE].Position, 1, 3) = <<1000, 2000, 0>>
         /\ \E i1, i2 \in DOMAIN adjusted :
              /\ o \in DOMAIN adjusted[i1] \cap DOMAIN adjusted[i2]
              /\ adjusted[i1][o] = [DeltaX |-> 200, DeltaY |-> 500, DeltaZ |-> 100]
              /\ adjusted[i2][o] = [DeltaX |-> 10, DeltaY |-> -10, DeltaZ |-> -20]

\* the stage of spec 4.5 a position of the handler belongs to:
\* 1 Validating, 2 Normalizing, 3 Dispatching, 4 Decoding, 5 Remapping, 6 Responding
StageOf(p) ==
    CASE p \in {"method", "parse", "validate"} -> 1
      [] p = "normalize" -> 2
      [] p \in {"credential", "dispatch", "waiting"} -> 3
      [] p \in {"decode", "panicked"} -> 4
      [] p = "remap" -> 5
      [] p \in {"respond", "done"} -> 6

\* the handler function has ended
HandlerEnded == pc \in {"done", "panicked"}

\* C14: a request passes the stages in order and never goes back; the only
\* skips are failures that go straight to Responding, with 4xx from
\* Validating and 5xx from Dispatching or Decoding; and a request that has
\* been handled got exactly one response.
C14_StagesInOrder ==
    /\ \A i \in 1..(Len(trace) - 1) :
         LET a == StageOf(trace[i])
             b == StageOf(trace[i + 1])
         IN  \/ b = a
             \/ b = a + 1
             \/ /\ b = 6
                /\ a \in {1, 3, 4}
                /\ i + 1 = Len(trace)
                /\ IF a = 1 THEN status \in 400..499 ELSE status \in 500..599
    /\ written <= 1
    /\ written = 1 => pc = "done"
    /\ HandlerEnded => (written = 1 /\ StageOf(trace[Len(trace)]) = 6)

\* ids the keys of a reply frame read as
ScannedIds(frame) == {ScanInt(k).id : k \in {kk \in Keys(frame) : ScanInt(kk).ok}}

\* C16: a 200 response of a multi-frame variant has one frame per frame of the
\* reply, in the reply's order, whatever the requested length: nothing is
\* padded, cut or refused, so it has `length` frames only when the reply has.
C16_FrameCountFollowsReply ==
    (variant \in MultiFrame /\ Passed("respond")) =>
        LET n == IF resp.content.shape = "frames" THEN Len(SentFrames) ELSE 0
        IN  /\ Len(adjusted) = n
            /\ pc = "done" => status = StatusOK
            /\ (Len(adjusted) = payload.Length) = (n = payload.Length)
            /\ \A i \in DOMAIN adjusted : \A o \in DOMAIN adjusted[i] :
                 idMap[o] \in ScannedIds(SentFrames[i])

C16_Witness ==
    /\ variant \in MultiFrame
    /\ pc = "done"
    /\ status = StatusOK
    /\ payload.Length = 1
    /\ Len(adjusted) = 2
    /\ DOMAIN adjusted[1] # DOMAIN adjusted[2]
    /\ DOMAIN adjusted[2] # {}

\* C18: the response of a multi-frame variant is decided by the request body
\* and the reply text alone: every value the key conversion could leave for
\* this request and reply is the one it left, also when two keys of a frame
\* read as the same integer.
C18_ResponseDetermined ==
    (variant \in MultiFrame /\ Passed("remap")) =>
        \A d \in ConvertFrames(variant, UnmarshalFrames(resp.content).Frames,
                               OriginalPositions(payload.ControlPoints)) :
            d = deformations

\* C19: once the external call has returned without error, zero choices
\* included, the handler does not leave Decoding without a status: it ends
\* with 200 or 500.
C19_DecodingAlwaysAnswers ==
    (Passed("decode") /\ pc \notin {"decode", "remap", "respond"}) =>
        /\ status \in {StatusOK, StatusInternalServerError}
        /\ written = 1

\* the status of the first client check the request fails
FirstClientFailure ==
    IF method # "POST" THEN StatusMethodNotAllowed ELSE StatusBadRequest

\* C20: the checks run in the order method, body, fields, credential: an
\* invalid request served without a credential gets the 4xx of its first
\* failing client check, never the 500, and the credential is read only after
\* normalization.
C20_ErrorPrecedence ==
    /\ (pc = "done" /\ (method # "POST" \/ ~body.wellFormed \/ BodyInvalid)) =>
           /\ status = FirstClientFailure
           /\ ~keyRead
           /\ calls = 0
    /\ keyRead =>
           /\ Passed("credential")
           /\ method = "POST" /\ body.wellFormed /\ ~BodyInvalid
           /\ idMap = NormalizeIds(Orig).idMap
           /\ \A i \in DOMAIN trace :
                trace[i] = "credential" =>
                    i > 1 /\ trace[i - 1] = "normalize"

C20_Witness ==
    /\ pc = "done"
    /\ apiKey = ""
    /\ method = "POST"
    /\ body.wellFormed
    /\ BodyInvalid
    /\ status = StatusBadRequest
    /\ ~keyRead

\* C17: when the external call always returns, every request the handler
\* has received reaches Responding.
C17_EventuallyResponds == (pc # "idle") ~> (pc = "done")

\* ------------------------------------------------- requests handled at once
\* net/http runs the handler once per request, each run on a goroutine of
\* its own.  Here every variable that is a local of the handler holds one
\* value per request; variant and apiKey are the process's.
Requests == 1 .. MaxRequests

Upd(f, r, x) == [f EXCEPT ![r] = x]

\* requests that pass validation: a head and an arm, with or without a
\* repeated id
ConcBodies ==
    { b \in Bodies :
        /\ b.wellFormed
        /\ b.present = FieldNames
        /\ b.prompt # ""
        /\ b.length = 1
        /\ Len(b.control_points) = 2
        /\ b.control_points[1].Role = "head"
        /\ b.control_points[2].Role \in {"right arm", "left arm"} }

\* an error, or one frame with numeric keys in the shape the variant decodes
ConcResponses(v) ==
    { x \in Responses(v) :
        \/ x.err
        \/ /\ x.choices = 1
           /\ x.content.shape = (IF v = "single" THEN "flat" ELSE "frames")
           /\ x.content.frames \in
                { << << Pair(<<"0">>, First(v)) >> >>,
                  << << Pair(<<"0">>, First(v)), Pair(<<"1">>, Second(v)) >> >> } }

\* a map kept by the process: it holds what the other requests stored
IdMapSeed_Shared(maps, r) ==
    LET others == Requests \ {r}
        keys == UNION {DOMAIN maps[q] : q \in others}
    IN  [o \in keys |-> maps[CHOOSE q \in others : o \in DOMAIN maps[q]][o]]

\* idMap := make(map[int]int): the map request r starts its loop with
IdMapSeed(maps, r) == EmptyMap

ConcInit ==
    /\ variant \in Variants
    /\ apiKey \in {"", "sk-key"}
    /\ pc = [r \in Requests |-> "idle"]
    /\ method = [r \in Requests |-> "POST"]
    /\ body = [r \in Requests |->
                 [wellFormed |-> FALSE, present |-> {}, control_points |-> <<>>,
                  prompt |-> "", length |-> 0]]
    /\ payload = [r \in Requests |-> ZeroPayload]
    /\ idMap = [r \in Requests |-> EmptyMap]
    /\ keyRead = [r \in Requests |-> FALSE]
    /\ calls = [r \in Requests |-> 0]
    /\ resp = [r \in Requests |-> NoResp]
    /\ deformations = [r \in Requests |-> <<>>]
    /\ adjusted = [r \in Requests |-> <<>>]
    /\ status = [r \in Requests |-> 0]
    /\ written = [r \in Requests |-> 0]
    /\ trace = [r \in Requests |-> <<>>]

\* http.Error(w, msg, code); return, in the handling of request r
FailOf(r, code) ==
    /\ status' = Upd(status, r, code)
    /\ written' = Upd(written, r, written[r] + 1)
    /\ pc' = Upd(pc, r, "done")
    /\ trace' = Upd(trace, r, Append(trace[r], "done"))

GotoOf(r, next) ==
    /\ pc' = Upd(pc, r, next)
    /\ trace' = Upd(trace, r, Append(trace[r], next))
    /\ UNCHANGED <<status, written>>

ReceiveOf(r) ==
    /\ pc[r] = "idle"
    /\ \E b \in ConcBodies : body' = Upd(body, r, b)
    /\ GotoOf(r, "method")
    /\ UNCHANGED <<variant, apiKey, method, payload, idMap, keyRead, calls, resp,
                   deformations, adjusted>>

CheckMethodOf(r) ==
    /\ pc[r] = "method"
    /\ IF ~MethodAllowed(method[r])
       THEN FailOf(r, StatusMethodNotAllowed)
       ELSE GotoOf(r, "parse")
    /\ UNCHANGED <<variant, apiKey, method, body, payload, idMap, keyRead, calls,
                   resp, deformations, adjusted>>

ParseBodyOf(r) ==
    /\ pc[r] = "parse"
    /\ IF ~body[r].wellFormed
       THEN /\ FailOf(r, StatusBadRequest)
            /\ UNCHANGED payload
       ELSE /\ GotoOf(r, "validate")
            /\ payload' = Upd(payload, r, DecodePayload(variant, body[r]))
    /\ UNCHANGED <<variant, apiKey, method, body, idMap, keyRead, calls, resp,
                   deformations, adjusted>>

ValidateOf(r) ==
    /\ pc[r] = "validate"
    /\ IF InvalidInput(variant, payload[r])
       THEN FailOf(r, StatusBadRequest)
       ELSE GotoOf(r, "normalize")
    /\ UNCHANGED <<variant, apiKey, method, body, payload, idMap, keyRead, calls,
                   resp, deformations, adjusted>>

NormalizeOf(r) ==
    /\ pc[r] = "normalize"
    /\ LET n == NormalizeFrom(payload[r].ControlPoints, 1, IdMapSeed(idMap, r), 0)
       IN  /\ idMap' = Upd(idMap, r, n.idMap)
           /\ payload' = Upd(payload, r,
                             [payload[r] EXCEPT !.ControlPoints = n.ControlPoints])
    /\ GotoOf(r, "credential")
    /\ UNCHANGED <<variant, apiKey, method, body, keyRead, calls, resp,
                   deformations, adjusted>>

ReadCredentialOf(r) ==
    /\ pc[r] = "credential"
    /\ keyRead' = Upd(keyRead, r, TRUE)
    /\ IF CredentialMissing(apiKey)
       THEN FailOf(r, StatusInternalServerError)
       ELSE GotoOf(r, "dispatch")
    /\ UNCHANGED <<variant, apiKey, method, body, payload, idMap, calls, resp,
                   deformations, adjusted>>

DispatchOf(r) ==
    /\ pc[r] = "dispatch"
    /\ calls' = Upd(calls, r, calls[r] + 1)
    /\ GotoOf(r, "waiting")
    /\ UNCHANGED <<variant, apiKey, method, body, payload, idMap, keyRead, resp,
                   deformations, adjusted>>

ExternalReturnOf(r) ==
    /\ pc[r] = "waiting"
    /\ \E x \in ConcResponses(variant) :
         /\ resp' = Upd(resp, r, x)
         /\ IF x.err THEN FailOf(r, StatusInternalServerError) ELSE GotoOf(r, "decode")
    /\ UNCHANGED <<variant, apiKey, method, body, payload, idMap, keyRead, calls,
                   deformations, adjusted>>

DecodeOf(r) ==
    /\ pc[r] = "decode"
    /\ IF resp[r].choices = 0
       THEN /\ GotoOf(r, "panicked")
            /\ UNCHANGED deformations
       ELSE IF variant = "single"
       THEN LET u == UnmarshalSingle(resp[r].content)
            IN  IF u.err
                THEN FailOf(r, StatusInternalServerError) /\ UNCHANGED deformations
                ELSE /\ GotoOf(r, "remap")
                     /\ deformations' = Upd(deformations, r, <<u.frame>>)
       ELSE LET u == UnmarshalFrames(resp[r].content)
            IN  IF u.err
                THEN FailOf(r, StatusInternalServerError) /\ UNCHANGED deformations
                ELSE /\ GotoOf(r, "remap")
                     /\ \E d \in ConvertFrames(variant, u.Frames,
                                     OriginalPositions(payload[r].ControlPoints)) :
                          deformations' = Upd(deformations, r, d)
    /\ UNCHANGED <<variant, apiKey, method, body, payload, idMap, keyRead, calls,
                   resp, adjusted>>

RemapOf(r) ==
    /\ pc[r] = "remap"
    /\ adjusted' = Upd(adjusted, r, Adjust(idMap[r], deformations[r]))
    /\ GotoOf(r, "respond")
    /\ UNCHANGED <<variant, apiKey, method, body, payload, idMap, keyRead, calls,
                   resp, deformations>>

RespondOf(r) ==
    /\ pc[r] = "respond"
    /\ FailOf(r, StatusOK)
    /\ UNCHANGED <<variant, apiKey, method, body, payload, idMap, keyRead, calls,
                   resp, deformations, adjusted>>

ConcNext ==
    \E r \in Requests :
        \/ ReceiveOf(r)
        \/ CheckMethodOf(r)
        \/ ParseBodyOf(r)
        \/ ValidateOf(r)
        \/ NormalizeOf(r)
        \/ ReadCredentialOf(r)
        \/ DispatchOf(r)
        \/ ExternalReturnOf(r)
        \/ DecodeOf(r)
        \/ RemapOf(r)
        \/ RespondOf(r)

ConcSpec == ConcInit /\ [][ConcNext]_vars

\* --------------------------------------------------------------------- C15
PassedOf(r, p) == \E i \in DOMAIN trace[r] : trace[r][i] = p

\* everything the handler holds for request r
LocalOf(r) ==
    <<pc[r], method[r], body[r], payload[r], idMap[r], keyRead[r], calls[r],
      resp[r], deformations[r], adjusted[r], status[r], written[r], trace[r]>>

\* what the handler computes from the body of request r alone
OwnNormalized(r) == NormalizeIds(DecodePayload(variant, body[r]).ControlPoints)
OwnPayload(r) ==
    [DecodePayload(variant, body[r]) EXCEPT
        !.ControlPoints = OwnNormalized(r).ControlPoints]

\* and from that body and the reply to request r
OwnDeformations(r) ==
    IF variant = "single"
    THEN {<<UnmarshalSingle(resp[r].content).frame>>}
    ELSE ConvertFrames(variant, UnmarshalFrames(resp[r].content).Frames,
                       OriginalPositions(OwnPayload(r).ControlPoints))
OwnAdjusted(r) == {Adjust(OwnNormalized(r).idMap, d) : d \in OwnDeformations(r)}
OwnStatus(r) ==
    IF ~MethodAllowed(method[r]) THEN StatusMethodNotAllowed
    ELSE IF ~body[r].wellFormed \/ InvalidInput(variant, DecodePayload(variant, body[r]))
    THEN StatusBadRequest
    ELSE IF CredentialMissing(apiKey) \/ resp[r].err THEN StatusInternalServerError
    ELSE IF (IF variant = "single" THEN UnmarshalSingle(resp[r].content).err
             ELSE UnmarshalFrames(resp[r].content).err)
    THEN StatusInternalServerError
    ELSE StatusOK

OwnInputsOnly ==
    \A r \in Requests :
        /\ PassedOf(r, "credential") =>
             /\ idMap[r] = OwnNormalized(r).idMap
             /\ payload[r] = OwnPayload(r)
        /\ PassedOf(r, "respond") => adjusted[r] \in OwnAdjusted(r)
        /\ pc[r] = "done" => (status[r] = OwnStatus(r) /\ written[r] = 1)

\* a step belongs to one request and leaves what the others hold as it was
StepOfOneRequest ==
    \E r \in Requests : \A q \in Requests \ {r} : LocalOf(q)' = LocalOf(q)

\* C15: however the handling of several requests is interleaved, the id map,
\* the normalized payload and the response of each request are those its
\* own body and its own reply give, and every step changes what one request
\* holds and nothing of another; variant and credential never change.
C15_RequestsIndependent ==
    /\ []OwnInputsOnly
    /\ [][StepOfOneRequest /\ UNCHANGED <<variant, apiKey>>]_vars

\* two requests with different id maps are in flight together: one has its
\* 200 response while the other, normalized before that, is still waiting
\* for its reply
C15_Witness ==
    \E r \in Requests : \E q \in Requests \ {r} :
        /\ pc[r] = "done" /\ status[r] = StatusOK
        /\ pc[q] = "waiting"
        /\ idMap[r] # idMap[q]
        /\ adjusted[r] # <<>> /\ adjusted[r][1] # EmptyMap

\* --------------------------------------------------------------------- C21
\* the last point of the request that carries original id o
LastOccurrence(o) == CHOOSE j \in Occurrences(o) : \A l \in Occurrences(o) : l <= j
FirstOccurrence(o) == CHOOSE j \in Occurrences(o) : \A l \in Occurrences(o) : j <= l

\* d is the rounded difference of returned position p and original position orig
IsDeltaAgainst(d, p, orig) ==
    /\ Len(orig) >= 3
    /\ NearestHundredth(p[1] - orig[1], d.DeltaX)
    /\ NearestHundredth(p[2] - orig[2], d.DeltaY)
    /\ NearestHundredth(p[3] - orig[3], d.DeltaZ)

\* C21: in the absolute variant, for an original id that several points of
\* the request carry, every delta of the response under that id is the
\* returned position minus the position of the last of those points.
C21_LastPositionWins ==
    (variant = "absolute" /\ Passed("respond") /\ resp.content.shape = "frames") =>
        \A i \in DOMAIN adjusted : \A o \in DOMAIN adjusted[i] :
            Cardinality(Occurrences(o)) > 1 =>
                \E j \in DOMAIN SentFrames[i] :
                    /\ ScanInt(SentFrames[i][j].key).ok
                    /\ ScanInt(SentFrames[i][j].key).id = idMap[o]
                    /\ IsDeltaAgainst(adjusted[i][o], Returned(SentFrames[i][j].val),
                                      Orig[LastOccurrence(o)].Position)

\* two points with one id and different positions, answered with a delta
\* that is the one against the last and not the one against the first
C21_Witness ==
    /\ variant = "absolute"
    /\ pc = "done"
    /\ status = StatusOK
    /\ \E o \in OrigIds :
         /\ Cardinality(Occurrences(o)) > 1
         /\ Orig[FirstOccurrence(o)].Position = <<0, 7000, 0>>
         /\ Orig[LastOccurrence(o)].Position = <<-1000, 2000, 0>>
         /\ adjusted # <<>>
         /\ o \in DOMAIN adjusted[1]
         /\ adjusted[1][o] = [DeltaX |-> 2200, DeltaY |-> 500, DeltaZ |-> 100]
         /\ ~IsDeltaAgainst(adjusted[1][o], <<1200, 2500, 100>>,
                            Orig[FirstOccurrence(o)].Position)

\* --------------------------------------------------------------------- C22
\* keys of the reply's frame i that scan to the dense id of original id o
KeysFor(i, o) ==
    { j \in DOMAIN SentFrames[i] :
        /\ ScanInt(SentFrames[i][j].key).ok
        /\ ScanInt(SentFrames[i][j].key).id = idMap[o] }

\* ids the reply's frame i names that the request gave no point for
Unknown(i) ==
    { ScanInt(SentFrames[i][j].key).id :
        j \in {l \in DOMAIN SentFrames[i] : ScanInt(SentFrames[i][l].key).ok} }
    \ Range(idMap)

\* C22: in the absolute variant a frame of the response holds an entry for
\* exactly the original ids the reply's frame names whose original position
\* has at least 3 components; entries for ids without an original position
\* or with a shorter one are left out and the request is still answered 200;
\* the delta uses the first three components of the position only.
C22_ShortPositionsOmitted ==
    (variant = "absolute" /\ Passed("respond") /\ resp.content.shape = "frames") =>
        /\ Len(adjusted) = Len(SentFrames)
        /\ pc = "done" => status = StatusOK
        /\ \A i \in DOMAIN adjusted :
             /\ DOMAIN adjusted[i] =
                  { o \in OrigIds :
                      /\ KeysFor(i, o) # {}
                      /\ Len(Orig[LastOccurrence(o)].Position) >= 3 }
             /\ \A o \in DOMAIN adjusted[i] : \E j \in KeysFor(i, o) :
                  IsDeltaAgainst(adjusted[i][o], Returned(SentFrames[i][j].val),
                                 SubSeq(Orig[LastOccurrence(o)].Position, 1, 3))

\* a 200 response whose frames leave out an id with a two-component
\* position and an id the request never had, and give a delta for an id
\* with a four-component position
C22_Witness ==
    /\ variant = "absolute"
    /\ pc = "done"
    /\ status = StatusOK
    /\ \E i \in DOMAIN adjusted : \E o \in OrigIds :
         /\ KeysFor(i, o) # {}
         /\ Len(Orig[LastOccurrence(o)].Position) = 2
         /\ o \notin DOMAIN adjusted[i]
    /\ \E i \in DOMAIN adjusted : Unknown(i) # {}
    /\ \E i \in DOMAIN adjusted : \E o \in DOMAIN adjusted[i] :
         /\ Orig[LastOccurrence(o)].Position = <<1000, 2000, 0, 9000>>
         /\ adjusted[i][o] = [DeltaX |-> 200, DeltaY |-> 500, DeltaZ |-> 100]

\* --------------------------------------------------------------------- C23
\* the payload as decoded from the body, before the normalizer
Decoded == DecodePayload(variant, body)

\* C23: once the normalizer has run, and so in the payload the call sends,
\* the control points are as many and in the same order as in the request,
\* each with its role and position; prompt and length are as decoded.
C23_OnlyIdsChange ==
    Passed("credential") =>
        /\ Len(payload.ControlPoints) = Len(Decoded.ControlPoints)
        /\ \A i \in DOMAIN payload.ControlPoints :
             /\ payload.ControlPoints[i].Role = Decoded.ControlPoints[i].Role
             /\ payload.ControlPoints[i].Position = Decoded.ControlPoints[i].Position
        /\ payload.Prompt = Decoded.Prompt
        /\ payload.Length = Decoded.Length

\* a request with a repeated id is out at the completion service with its
\* ids rewritten
C23_Witness ==
    /\ pc = "waiting"
    /\ calls = 1
    /\ Len(Orig) = 2
    /\ Orig[1].ID = Orig[2].ID
    /\ Orig[1].Role # Orig[2].Role
    /\ payload.ControlPoints # Orig
    /\ payload.ControlPoints[1].ID = 0
    /\ payload.ControlPoints[2].ID = 0

====
